---- MODULE Spec2Model ----
(***************************************************************************)
(* Life calendar store (useLifeCalendarStore), its week index builder      *)
(* (_recomputeWeekMap), the date helpers of lib/dateUtils and the          *)
(* import/export codec of lib/importExport + lib/schemas.                  *)
(*                                                                         *)
(* A Date is an integer number of hours since 1970-01-01T00:00 (UTC is the *)
(* local zone).  An optional value (Date | null, Date | undefined) is the  *)
(* empty tuple when absent and a one-element tuple when present.           *)
(***************************************************************************)
EXTENDS Integers, Sequences, FiniteSets, TLC

VARIABLES birthDate, lifeExpectancy, eras, events, weekMap,
          hoveredWeekIndex, selectedWeekIndex, call, steps,
          storage, hydrated

vars == <<birthDate, lifeExpectancy, eras, events, weekMap,
          hoveredWeekIndex, selectedWeekIndex, call, steps,
          storage, hydrated>>

\* the data part of the store: everything but the UI state
data == <<birthDate, lifeExpectancy, eras, events, weekMap>>

WEEKS_PER_YEAR == 52
DEFAULT_LIFE_EXPECTANCY == 80

\* longest command sequence explored
MaxSteps == 2

None == <<>>
Some(v) == <<v>>

(***************************************************************************)
(* Calendar arithmetic: the day number (days since 1970-01-01) of a        *)
(* calendar date of the proleptic Gregorian calendar.                      *)
(***************************************************************************)
daysFromCivil(y, m, d) ==
    LET yy  == IF m <= 2 THEN y - 1 ELSE y
        era == yy \div 400
        yoe == yy - era * 400
        mp  == IF m > 2 THEN m - 3 ELSE m + 9
        doy == (153 * mp + 2) \div 5 + d - 1
        doe == yoe * 365 + yoe \div 4 - yoe \div 100 + doy
    IN  era * 146097 + doe - 719468

\* new Date(Date.UTC(y, m-1, d, h))
DateOf(y, m, d, h) == daysFromCivil(y, m, d) * 24 + h

addDays(t, n) == t + n * 24

(***************************************************************************)
(* date-fns helpers used by lib/dateUtils                                  *)
(***************************************************************************)
truncDiv(n, d) == IF n >= 0 THEN n \div d ELSE -((-n) \div d)

startOfDay(t) == t - (t % 24)

addWeeks(t, n) == t + n * 7 * 24

differenceInDays(later, earlier) == truncDiv(later - earlier, 24)

\* default rounding method of date-fns: Math.trunc
differenceInWeeks(later, earlier) == truncDiv(differenceInDays(later, earlier), 7)

isAfter(a, b) == a > b

isBefore(a, b) == a < b

(***************************************************************************)
(* lib/dateUtils                                                           *)
(***************************************************************************)
getWeekRange(bd, weekIndex) ==
    LET start == addWeeks(startOfDay(bd), weekIndex)
    IN  [start |-> start, end |-> addWeeks(start, 1)]

\* getWeekIndex that counts a begun 7-day period as a whole one
getWeekIndex_begun(bd, date) ==
    (differenceInDays(startOfDay(date), startOfDay(bd)) + 6) \div 7

getWeekIndex(bd, date) == differenceInWeeks(startOfDay(date), startOfDay(bd))

\* isEraActiveInWeek that takes an era starting at the end of the week as not started
isEraActiveInWeek_exclusive(eraStart, eraEnd, weekStart, weekEnd) ==
    IF ~isBefore(eraStart, weekEnd) THEN FALSE
    ELSE IF eraEnd # None /\ isBefore(eraEnd[1], weekStart) THEN FALSE
    ELSE TRUE

isEraActiveInWeek(eraStart, eraEnd, weekStart, weekEnd) ==
    IF isAfter(eraStart, weekEnd) THEN FALSE
    ELSE IF eraEnd # None /\ isBefore(eraEnd[1], weekStart) THEN FALSE
    ELSE TRUE

(***************************************************************************)
(* The week index builder: store/_recomputeWeekMap.  A week map is a       *)
(* function from the week indices that have an entry to the entry.  The    *)
(* code fills the map era by era and then event by event; within one era   *)
(* or event every week is visited once, so the pushes of one era or event  *)
(* are applied to the map in one step.                                     *)
(***************************************************************************)
emptyMap == <<>>

emptyEntry == [eraIds |-> <<>>, eventIds |-> <<>>]

\* newMap.get(weekIndex) ?? { eraIds: [], eventIds: [] }
entryOf(map, w) == IF w \in DOMAIN map THEN map[w] ELSE emptyEntry

\* Array.prototype.includes
includes(seq, x) == \E i \in 1..Len(seq) : seq[i] = x

max(a, b) == IF a >= b THEN a ELSE b

min(a, b) == IF a <= b THEN a ELSE b

\* the test of the eras loop for one era and one week of the scan
eraTouches(era, bd, w) ==
    LET range == getWeekRange(bd, w)
    IN  isEraActiveInWeek(era.startDate, era.endDate, range.start, range.end)

\* the body of the eras loop: the scan of all weeks for one era
processEra(map, era, bd, totalWeeks) ==
    LET active == {w \in 0..(totalWeeks - 1) : eraTouches(era, bd, w)}
    IN  [w \in (DOMAIN map) \cup active |->
            IF w \in active
            THEN [entryOf(map, w) EXCEPT !.eraIds = Append(@, era.id)]
            ELSE map[w]]

\* eventWeeks that leaves out the week of a period event's end date
eventWeeks_openEnd(event, bd, totalWeeks) ==
    IF event.endDate # None
    THEN max(0, getWeekIndex(bd, event.date))
             .. min(totalWeeks - 1, getWeekIndex(bd, event.endDate[1]) - 1)
    ELSE LET weekIndex == getWeekIndex(bd, event.date)
         IN  IF weekIndex >= 0 /\ weekIndex < totalWeeks THEN {weekIndex} ELSE {}

\* eventWeeks that clamps the week of a point event into the lifespan
eventWeeks_clamped(event, bd, totalWeeks) ==
    IF event.endDate # None
    THEN max(0, getWeekIndex(bd, event.date))
             .. min(totalWeeks - 1, getWeekIndex(bd, event.endDate[1]))
    ELSE {max(0, min(totalWeeks - 1, getWeekIndex(bd, event.date)))}

\* the weeks whose entry the events loop sets for one event
eventWeeks(event, bd, totalWeeks) ==
    IF event.endDate # None
    THEN \* period event: startIndex..endIndex
         max(0, getWeekIndex(bd, event.date))
             .. min(totalWeeks - 1, getWeekIndex(bd, event.endDate[1]))
    ELSE \* point-in-time event
         LET weekIndex == getWeekIndex(bd, event.date)
         IN  IF weekIndex >= 0 /\ weekIndex < totalWeeks THEN {weekIndex} ELSE {}

\* the body of the events loop: a period event is pushed unless the id is
\* already listed, a point-in-time event always
processEvent(map, event, bd, totalWeeks) ==
    LET weeks == eventWeeks(event, bd, totalWeeks)
    IN  [w \in (DOMAIN map) \cup weeks |->
            IF w \notin weeks THEN map[w]
            ELSE IF event.endDate # None /\ includes(entryOf(map, w).eventIds, event.id)
                 THEN entryOf(map, w)
                 ELSE [entryOf(map, w) EXCEPT !.eventIds = Append(@, event.id)]]

\* for (const era of eras), from the n-th era on
RECURSIVE processEras(_, _, _, _, _)
processEras(map, eraList, n, bd, totalWeeks) ==
    IF n > Len(eraList) THEN map
    ELSE processEras(processEra(map, eraList[n], bd, totalWeeks),
                     eraList, n + 1, bd, totalWeeks)

\* for (const event of events), from the n-th event on
RECURSIVE processEvents(_, _, _, _, _)
processEvents(map, eventList, n, bd, totalWeeks) ==
    IF n > Len(eventList) THEN map
    ELSE processEvents(processEvent(map, eventList[n], bd, totalWeeks),
                       eventList, n + 1, bd, totalWeeks)

\* the map that _recomputeWeekMap stores for the given profile and collections
recomputeWeekMap(bd, le, eraList, eventList) ==
    IF bd = None THEN emptyMap
    ELSE processEvents(processEras(emptyMap, eraList, 1, bd[1], le * WEEKS_PER_YEAR),
                       eventList, 1, bd[1], le * WEEKS_PER_YEAR)

(***************************************************************************)
(* JSON values.  A JSON text is modelled by the value JSON.parse gives for *)
(* it, or by a text that JSON.parse rejects.  The string that              *)
(* Date.prototype.toISOString produces, "<date>T<time>Z", is kept as its   *)
(* two parts: the day number of the date and the hour of the time.         *)
(***************************************************************************)
JUndefined == [kind |-> "undefined"]

JNull == [kind |-> "null"]

JString(s) == [kind |-> "string", text |-> s]

JNumber(n) == [kind |-> "number", value |-> n]

JArray(items) == [kind |-> "array", items |-> items]

\* Date.prototype.toJSON(): the ISO-8601 string of the instant
toISOString(t) == [kind |-> "iso", date |-> t \div 24, time |-> t % 24]

\* new Date(text) for an ISO-8601 string
parseISOString(j) == j.date * 24 + j.time

\* JSON.stringify of an optional Date / string property (undefined is omitted)
dateJSON(opt) == IF opt = None THEN JUndefined ELSE toISOString(opt[1])

stringJSON(opt) == IF opt = None THEN JUndefined ELSE JString(opt[1])

eraJSON(era) ==
    [id |-> JString(era.id), title |-> JString(era.title),
     startDate |-> toISOString(era.startDate), endDate |-> dateJSON(era.endDate),
     color |-> JString(era.color), category |-> JString(era.category)]

eventJSON(event) ==
    [id |-> JString(event.id), date |-> toISOString(event.date),
     endDate |-> dateJSON(event.endDate), title |-> JString(event.title),
     description |-> stringJSON(event.description),
     color |-> stringJSON(event.color)]

eraListJSON(list) == JArray([i \in 1..Len(list) |-> eraJSON(list[i])])

eventListJSON(list) == JArray([i \in 1..Len(list) |-> eventJSON(list[i])])

\* lib/importExport: the JSON text of the snapshot of a persisted state
exportCalendarData(state, now) ==
    [syntaxOk |-> TRUE,
     version |-> JNumber(1),
     exportedAt |-> toISOString(now),
     data |-> [birthDate |-> IF state.birthDate = None THEN JNull
                             ELSE toISOString(state.birthDate[1]),
               lifeExpectancy |-> JNumber(state.lifeExpectancy),
               eras |-> eraListJSON(state.eras),
               events |-> eventListJSON(state.events)]]

(***************************************************************************)
(* lib/schemas: Zod validation.  A parse result is [ok, value].            *)
(***************************************************************************)
Valid(v) == [ok |-> TRUE, value |-> v]

Invalid == [ok |-> FALSE, value |-> None]

\* strings that match the UUID pattern of z.string().uuid()
UuidStrings == {"u1", "u2", "u3", "v1", "v2", "v3", "v4", "v5", "v6"}

\* strings that match /^#([0-9a-fA-F]{3}){1,2}$/
HexColorStrings == {"#f00", "#00f", "#0f0", "#ff0000"}

EraCategories == {"work", "education", "location", "relationship", "health", "other"}

\* z.coerce.date(): new Date(input), rejected when the time value is NaN
coerceDate(j) ==
    CASE j.kind = "iso"    -> Valid(parseISOString(j))
      [] j.kind = "null"   -> Valid(0)
      [] j.kind = "number" -> Valid(j.value \div 3600000)
      [] OTHER             -> Invalid

\* z.coerce.date().optional()
coerceOptionalDate(j) ==
    IF j.kind = "undefined" THEN Valid(None)
    ELSE LET r == coerceDate(j) IN IF r.ok THEN Valid(Some(r.value)) ELSE Invalid

\* z.string().uuid()
parseUuid(j) ==
    IF j.kind = "string" /\ j.text \in UuidStrings THEN Valid(j.text) ELSE Invalid

\* z.string().min(1, 'Title is required')
parseTitle(j) ==
    IF j.kind = "string" /\ j.text # "" THEN Valid(j.text) ELSE Invalid

HexColorSchema(j) ==
    IF j.kind = "string" /\ j.text \in HexColorStrings THEN Valid(j.text) ELSE Invalid

EraCategorySchema(j) ==
    IF j.kind = "string" /\ j.text \in EraCategories THEN Valid(j.text) ELSE Invalid

\* z.string().optional()
parseOptionalString(j) ==
    CASE j.kind = "undefined" -> Valid(None)
      [] j.kind = "string"    -> Valid(Some(j.text))
      [] OTHER                -> Invalid

\* HexColorSchema.optional()
parseOptionalColor(j) ==
    IF j.kind = "undefined" THEN Valid(None)
    ELSE LET r == HexColorSchema(j) IN IF r.ok THEN Valid(Some(r.value)) ELSE Invalid

LifeEraSchema(j) ==
    LET id        == parseUuid(j.id)
        title     == parseTitle(j.title)
        startDate == coerceDate(j.startDate)
        endDate   == coerceOptionalDate(j.endDate)
        color     == HexColorSchema(j.color)
        category  == EraCategorySchema(j.category)
    IN  IF id.ok /\ title.ok /\ startDate.ok /\ endDate.ok /\ color.ok /\ category.ok
        THEN Valid([id |-> id.value, title |-> title.value,
                    startDate |-> startDate.value, endDate |-> endDate.value,
                    color |-> color.value, category |-> category.value])
        ELSE Invalid

LifeEventSchema(j) ==
    LET id          == parseUuid(j.id)
        date        == coerceDate(j.date)
        endDate     == coerceOptionalDate(j.endDate)
        title       == parseTitle(j.title)
        description == parseOptionalString(j.description)
        color       == parseOptionalColor(j.color)
    IN  IF id.ok /\ date.ok /\ endDate.ok /\ title.ok /\ description.ok /\ color.ok
        THEN Valid([id |-> id.value, date |-> date.value, endDate |-> endDate.value,
                    title |-> title.value, description |-> description.value,
                    color |-> color.value])
        ELSE Invalid

\* z.array(LifeEraSchema).default([])
parseEraArray(j) ==
    CASE j.kind = "undefined" -> Valid(<<>>)
      [] j.kind = "array" ->
            IF \A i \in 1..Len(j.items) : LifeEraSchema(j.items[i]).ok
            THEN Valid([i \in 1..Len(j.items) |-> LifeEraSchema(j.items[i]).value])
            ELSE Invalid
      [] OTHER -> Invalid

\* z.array(LifeEventSchema).default([])
parseEventArray(j) ==
    CASE j.kind = "undefined" -> Valid(<<>>)
      [] j.kind = "array" ->
            IF \A i \in 1..Len(j.items) : LifeEventSchema(j.items[i]).ok
            THEN Valid([i \in 1..Len(j.items) |-> LifeEventSchema(j.items[i]).value])
            ELSE Invalid
      [] OTHER -> Invalid

\* z.number().int().min(50).max(120).default(80)
parseLifeExpectancy(j) ==
    CASE j.kind = "undefined" -> Valid(80)
      [] j.kind = "number" ->
            IF j.value >= 50 /\ j.value <= 120 THEN Valid(j.value) ELSE Invalid
      [] OTHER -> Invalid

UserConfigSchema(j) ==
    LET bd == coerceDate(j.birthDate)
        le == parseLifeExpectancy(j.lifeExpectancy)
        er == parseEraArray(j.eras)
        ev == parseEventArray(j.events)
    IN  IF bd.ok /\ le.ok /\ er.ok /\ ev.ok
        THEN Valid([birthDate |-> bd.value, lifeExpectancy |-> le.value,
                    eras |-> er.value, events |-> ev.value])
        ELSE Invalid

\* version: z.literal(1), exportedAt: z.coerce.date(), data: UserConfigSchema
ExportDataSchema(j) ==
    LET d == UserConfigSchema(j.data)
    IN  IF j.version = JNumber(1) /\ coerceDate(j.exportedAt).ok /\ d.ok
        THEN Valid(d.value)
        ELSE Invalid

InvalidJsonMessage == "Invalid JSON format. Please check the file contents."

ValidationFailedMessage == "Validation failed"

\* lib/importExport: parse and validate a JSON text
importCalendarData(json) ==
    IF ~json.syntaxOk
    THEN [success |-> FALSE, data |-> None, error |-> InvalidJsonMessage]
    ELSE LET result == ExportDataSchema(json)
         IN  IF ~result.ok
             THEN [success |-> FALSE, data |-> None, error |-> ValidationFailedMessage]
             ELSE [success |-> TRUE, data |-> Some(result.value), error |-> ""]

(***************************************************************************)
(* Inputs of the commands                                                  *)
(***************************************************************************)
Birth == DateOf(2000, 1, 1, 0)

\* start of week w of a life that begins at Birth
WeekStart(w) == addWeeks(Birth, w)

BirthDateInputs == {Birth}

LifeExpectancyInputs == {50, 121}

EraSchool ==
    [id |-> "u1", title |-> "School", startDate |-> Birth,
     endDate |-> Some(addDays(Birth, 13)), color |-> "#f00", category |-> "education"]

EraWork ==
    [id |-> "u2", title |-> "Work", startDate |-> WeekStart(1),
     endDate |-> None, color |-> "#00f", category |-> "work"]

\* starts exactly where a life of DEFAULT_LIFE_EXPECTANCY years ends
EraLate ==
    [id |-> "u3", title |-> "Late", startDate |-> WeekStart(DEFAULT_LIFE_EXPECTANCY * WEEKS_PER_YEAR),
     endDate |-> None, color |-> "#0f0", category |-> "other"]

EraInputs == {EraSchool, EraWork, EraLate}

EraIdInputs == {"u2", "u3"}

EraUpdateInputs == {[id |-> "u1", title |-> "Renamed"]}

\* three days before the birth date
EventBefore ==
    [id |-> "v1", date |-> addDays(Birth, -3), endDate |-> None,
     title |-> "Before", description |-> None, color |-> None]

EventTrip ==
    [id |-> "v2", date |-> WeekStart(5), endDate |-> Some(WeekStart(7)),
     title |-> "Trip", description |-> Some("abroad"), color |-> Some("#ff0000")]

\* the first day after a life of DEFAULT_LIFE_EXPECTANCY years
EventAfter ==
    [id |-> "v3", date |-> WeekStart(DEFAULT_LIFE_EXPECTANCY * WEEKS_PER_YEAR),
     endDate |-> None, title |-> "After", description |-> None, color |-> None]

EventInputs == {EventBefore, EventTrip, EventAfter}

EventIdInputs == {"v2", "v3"}

EventUpdateInputs == {[id |-> "v1", title |-> "Renamed"]}

WeekInputs == {Some(0)}

ClockInputs == {DateOf(2000, 2, 1, 9)}

\* a snapshot file written by exportData
SnapshotState ==
    [birthDate |-> Some(Birth), lifeExpectancy |-> 50,
     eras |-> <<EraSchool, EraWork>>, events |-> <<EventBefore, EventTrip>>]

JsonSnapshot == exportCalendarData(SnapshotState, DateOf(2000, 2, 1, 9))

\* a text that is not JSON
JsonMalformed == [syntaxOk |-> FALSE]

\* the snapshot with the title of its second era emptied
JsonBadEra ==
    [JsonSnapshot EXCEPT !.data.eras.items[2].title = JString("")]

\* a hand-written file in which two eras and two events share an id
JsonSharedIds ==
    exportCalendarData(
        [birthDate |-> Some(Birth), lifeExpectancy |-> 50,
         eras |-> <<EraSchool, [EraWork EXCEPT !.id = "u1"]>>,
         events |-> <<[EventBefore EXCEPT !.date = addDays(Birth, 1)],
                      [EventBefore EXCEPT !.date = addDays(Birth, 2)]>>],
        DateOf(2000, 2, 1, 9))

\* an era whose end is two days before its start, both inside week 1
EraBackward ==
    [id |-> "u1", title |-> "Backward", startDate |-> addDays(Birth, 10),
     endDate |-> Some(addDays(Birth, 8)), color |-> "#f00", category |-> "other"]

\* an era whose end is in week 0 and whose start is in week 2
EraBackwardFar ==
    [id |-> "u2", title |-> "Backward far", startDate |-> addDays(Birth, 20),
     endDate |-> Some(addDays(Birth, 3)), color |-> "#00f", category |-> "other"]

\* a period event whose end is two days before its date, both inside week 1
EventBackward ==
    [id |-> "v1", date |-> addDays(Birth, 10), endDate |-> Some(addDays(Birth, 8)),
     title |-> "Backward", description |-> None, color |-> None]

\* a period event whose end is in week 0 and whose date is in week 2
EventBackwardFar ==
    [id |-> "v2", date |-> addDays(Birth, 20), endDate |-> Some(addDays(Birth, 3)),
     title |-> "Backward far", description |-> None, color |-> None]

\* a period event that begins ten days before the birth date
EventEarly ==
    [id |-> "v3", date |-> addDays(Birth, -10), endDate |-> Some(addDays(Birth, 10)),
     title |-> "Early", description |-> None, color |-> None]

\* a period event that begins in the last but one week of a 50-year life and
\* ends a hundred weeks after it
EventLong ==
    [id |-> "v4", date |-> WeekStart(50 * WEEKS_PER_YEAR - 2),
     endDate |-> Some(WeekStart(50 * WEEKS_PER_YEAR + 100)),
     title |-> "Long", description |-> None, color |-> None]

\* a point event ten days before the birth date
EventLost ==
    [id |-> "v5", date |-> addDays(Birth, -10), endDate |-> None,
     title |-> "Lost", description |-> None, color |-> None]

\* a point event on the third day of week 2
EventDay ==
    [id |-> "v6", date |-> addDays(Birth, 16), endDate |-> None,
     title |-> "Day", description |-> Some("a day"), color |-> None]

\* a hand-written file with periods that end before they start and events
\* that reach over the ends of the lifespan
JsonEdgeCases ==
    exportCalendarData(
        [birthDate |-> Some(Birth), lifeExpectancy |-> 50,
         eras |-> <<EraBackward, EraBackwardFar>>,
         events |-> <<EventBackward, EventBackwardFar, EventEarly, EventLong, EventLost,
                      EventDay>>],
        DateOf(2000, 2, 1, 9))

JsonInputs == {JsonSnapshot, JsonMalformed, JsonBadEra, JsonSharedIds, JsonEdgeCases}

\* a JSON number that is not an integer, num/den
JFraction(num, den) == [kind |-> "fraction", num |-> num, den |-> den]

\* the snapshot with the title of its first era made of two spaces
JsonBlankEraTitle ==
    [JsonSnapshot EXCEPT !.data.eras.items[1].title = JString("  ")]

\* the snapshot with the title of its second event made of one space
JsonBlankEventTitle ==
    [JsonSnapshot EXCEPT !.data.events.items[2].title = JString(" ")]

\* the snapshot with the title of its first event emptied
JsonBadEvent ==
    [JsonSnapshot EXCEPT !.data.events.items[1].title = JString("")]

JsonVersion2 == [JsonSnapshot EXCEPT !.version = JNumber(2)]

JsonNoVersion == [JsonSnapshot EXCEPT !.version = JUndefined]

JsonLowLife == [JsonSnapshot EXCEPT !.data.lifeExpectancy = JNumber(49)]

JsonHighLife == [JsonSnapshot EXCEPT !.data.lifeExpectancy = JNumber(121)]

\* "lifeExpectancy": 60.5
JsonFractionLife == [JsonSnapshot EXCEPT !.data.lifeExpectancy = JFraction(121, 2)]

\* the snapshot without the lifeExpectancy property
JsonNoLife == [JsonSnapshot EXCEPT !.data.lifeExpectancy = JUndefined]

\* the snapshot without the birthDate property
JsonNoBirth == [JsonSnapshot EXCEPT !.data.birthDate = JUndefined]

JsonBadCategory ==
    [JsonSnapshot EXCEPT !.data.eras.items[2].category = JString("hobby")]

\* a start date that is not a date: new Date("soon") is an Invalid Date
JsonBadDate ==
    [JsonSnapshot EXCEPT !.data.eras.items[1].startDate = JString("soon")]

JsonBadEventEnd ==
    [JsonSnapshot EXCEPT !.data.events.items[2].endDate = JString("later")]

\* the documents given to the validation
ImportDocuments ==
    {JsonSnapshot, JsonMalformed, JsonBadEra, JsonBadEvent, JsonBlankEraTitle,
     JsonBlankEventTitle, JsonVersion2, JsonNoVersion, JsonLowLife, JsonHighLife,
     JsonFractionLife, JsonNoLife, JsonNoBirth, JsonBadCategory, JsonBadDate,
     JsonBadEventEnd, JsonSharedIds, JsonEdgeCases}

(***************************************************************************)
(* Persistence: the persist middleware with customStorage.  A value of the  *)
(* hydrated store is kept as the JavaScript value JSON.parse gives: a date  *)
(* that was not revived is the ISO-8601 string, a revived one is a Date.    *)
(***************************************************************************)
\* a Date object among JavaScript values
JDate(t) == [kind |-> "date", time |-> t]

\* partialize and JSON.stringify({ state, version }): the text setItem stores
persistText(bd, le, eraList, eventList) ==
    [state |-> [birthDate |-> IF bd = None THEN JNull ELSE toISOString(bd[1]),
                lifeExpectancy |-> JNumber(le),
                eras |-> eraListJSON(eraList),
                events |-> eventListJSON(eventList)],
     version |-> JNumber(0)]

\* the reviver of customStorage.getItem: an ISO-8601 string becomes a Date
reviver(value) ==
    IF value.kind = "iso" THEN JDate(parseISOString(value)) ELSE value

\* JSON.stringify of a revived value: Date.prototype.toJSON gives the string
stringifyValue(value) ==
    IF value.kind = "date" THEN toISOString(value.time) ELSE value

\* customStorage.getItem on one era or event: JSON.parse with the reviver, then
\* JSON.stringify of the result
getItemEra(j) ==
    [j EXCEPT !.startDate = stringifyValue(reviver(@)),
              !.endDate = stringifyValue(reviver(@))]

getItemEvent(j) ==
    [j EXCEPT !.date = stringifyValue(reviver(@)),
              !.endDate = stringifyValue(reviver(@))]

\* customStorage.getItem: the text handed to the middleware, None for null
getItem(raw) ==
    IF raw = None THEN None
    ELSE Some([state |->
                  [birthDate |-> stringifyValue(reviver(raw[1].state.birthDate)),
                   lifeExpectancy |-> raw[1].state.lifeExpectancy,
                   eras |-> JArray([i \in 1..Len(raw[1].state.eras.items) |->
                                       getItemEra(raw[1].state.eras.items[i])]),
                   events |-> JArray([i \in 1..Len(raw[1].state.events.items) |->
                                         getItemEvent(raw[1].state.events.items[i])])],
               version |-> raw[1].version])

\* the persisted fields of a store that starts: the initial values, overridden
\* by the fields of the stored item (merge of the middleware)
mergePersisted(item) ==
    IF item = None
    THEN [birthDate |-> JNull, lifeExpectancy |-> JNumber(DEFAULT_LIFE_EXPECTANCY),
          eras |-> JArray(<<>>), events |-> JArray(<<>>)]
    ELSE item[1].state

\* date-fns toDate: a Date is cloned, a string goes through new Date(string)
toDate(value) ==
    IF value.kind = "date" THEN value.time ELSE parseISOString(value)

\* what _recomputeWeekMap reads of a hydrated era or event
eraAsRead(j) ==
    [id |-> j.id.text, title |-> j.title.text, startDate |-> toDate(j.startDate),
     endDate |-> IF j.endDate.kind = "undefined" THEN None ELSE Some(toDate(j.endDate)),
     color |-> j.color.text, category |-> j.category.text]

eventAsRead(j) ==
    [id |-> j.id.text, date |-> toDate(j.date),
     endDate |-> IF j.endDate.kind = "undefined" THEN None ELSE Some(toDate(j.endDate))]

\* _recomputeWeekMap on the fields of a hydrated store
recomputeHydrated(fields) ==
    recomputeWeekMap(
        IF fields.birthDate.kind = "null" THEN None ELSE Some(toDate(fields.birthDate)),
        fields.lifeExpectancy.value,
        [i \in 1..Len(fields.eras.items) |-> eraAsRead(fields.eras.items[i])],
        [i \in 1..Len(fields.events.items) |-> eventAsRead(fields.events.items[i])])

\* the state of a store right after the hydration that runs when it is created
hydratedState(fields, map) ==
    [birthDate |-> fields.birthDate, lifeExpectancy |-> fields.lifeExpectancy,
     eras |-> fields.eras, events |-> fields.events,
     weekMap |-> map, hoveredWeekIndex |-> None, selectedWeekIndex |-> None]

(***************************************************************************)
(* The store: store/lifeCalendarStore                                      *)
(***************************************************************************)
\* the command that ran last, its first argument and what it returned
Call(op, arg, success, error) ==
    [op |-> op, arg |-> arg, success |-> success, error |-> error]

Init ==
    /\ birthDate = None
    /\ lifeExpectancy = DEFAULT_LIFE_EXPECTANCY
    /\ eras = <<>>
    /\ events = <<>>
    /\ weekMap = emptyMap
    /\ hoveredWeekIndex = None
    /\ selectedWeekIndex = None
    /\ call = Call("create", "", TRUE, "")
    /\ steps = 0
    /\ storage = None
    /\ hydrated = None

\* { ...item, ...updates }
merge(item, updates) ==
    [f \in DOMAIN item |-> IF f \in DOMAIN updates THEN updates[f] ELSE item[f]]

ids(list) == {list[i].id : i \in 1..Len(list)}

\* list.filter(item => item.id !== id)
withoutId(list, id) ==
    LET keep(item) == item.id # id IN SelectSeq(list, keep)

\* setBirthDate that leaves the index as it was
setBirthDate_keepIndex(date) ==
    /\ steps < MaxSteps
    /\ birthDate' = Some(date)
    /\ call' = Call("setBirthDate", date, TRUE, "")
    /\ steps' = steps + 1
    /\ UNCHANGED <<lifeExpectancy, eras, events, weekMap, hoveredWeekIndex,
                   selectedWeekIndex>>
    /\ storage' = Some(persistText(birthDate', lifeExpectancy', eras', events'))
    /\ UNCHANGED hydrated

setBirthDate(date) ==
    /\ steps < MaxSteps
    /\ birthDate' = Some(date)
    /\ weekMap' = recomputeWeekMap(birthDate', lifeExpectancy, eras, events)
    /\ call' = Call("setBirthDate", date, TRUE, "")
    /\ steps' = steps + 1
    /\ UNCHANGED <<lifeExpectancy, eras, events, hoveredWeekIndex, selectedWeekIndex>>
    /\ storage' = Some(persistText(birthDate', lifeExpectancy', eras', events'))
    /\ UNCHANGED hydrated

\* setLifeExpectancy without the rebuild of the index
setLifeExpectancy_stale(years) ==
    /\ steps < MaxSteps
    /\ lifeExpectancy' = years
    /\ call' = Call("setLifeExpectancy", years, TRUE, "")
    /\ steps' = steps + 1
    /\ UNCHANGED <<birthDate, eras, events, weekMap, hoveredWeekIndex, selectedWeekIndex>>
    /\ storage' = Some(persistText(birthDate', lifeExpectancy', eras', events'))
    /\ UNCHANGED hydrated

\* setLifeExpectancy that rebuilds the index for the longer of the old and
\* the new lifespan
setLifeExpectancy_keepTail(years) ==
    /\ steps < MaxSteps
    /\ lifeExpectancy' = years
    /\ weekMap' = recomputeWeekMap(birthDate, max(lifeExpectancy, years), eras, events)
    /\ call' = Call("setLifeExpectancy", years, TRUE, "")
    /\ steps' = steps + 1
    /\ UNCHANGED <<birthDate, eras, events, hoveredWeekIndex, selectedWeekIndex>>
    /\ storage' = Some(persistText(birthDate', lifeExpectancy', eras', events'))
    /\ UNCHANGED hydrated

setLifeExpectancy(years) ==
    /\ steps < MaxSteps
    /\ lifeExpectancy' = years
    /\ weekMap' = recomputeWeekMap(birthDate, lifeExpectancy', eras, events)
    /\ call' = Call("setLifeExpectancy", years, TRUE, "")
    /\ steps' = steps + 1
    /\ UNCHANGED <<birthDate, eras, events, hoveredWeekIndex, selectedWeekIndex>>
    /\ storage' = Some(persistText(birthDate', lifeExpectancy', eras', events'))
    /\ UNCHANGED hydrated

addEra(era) ==
    /\ steps < MaxSteps
    /\ eras' = Append(eras, era)
    /\ weekMap' = recomputeWeekMap(birthDate, lifeExpectancy, eras', events)
    /\ call' = Call("addEra", era, TRUE, "")
    /\ steps' = steps + 1
    /\ UNCHANGED <<birthDate, lifeExpectancy, events, hoveredWeekIndex, selectedWeekIndex>>
    /\ storage' = Some(persistText(birthDate', lifeExpectancy', eras', events'))
    /\ UNCHANGED hydrated

\* updateEra that, finding no era with the id, updates the last era instead
updateEra_last(id, updates) ==
    /\ steps < MaxSteps
    /\ eras' = [i \in 1..Len(eras) |->
                   IF \/ eras[i].id = id
                      \/ (id \notin ids(eras) /\ i = Len(eras))
                   THEN merge(eras[i], updates) ELSE eras[i]]
    /\ weekMap' = recomputeWeekMap(birthDate, lifeExpectancy, eras', events)
    /\ call' = Call("updateEra", id, TRUE, "")
    /\ steps' = steps + 1
    /\ UNCHANGED <<birthDate, lifeExpectancy, events, hoveredWeekIndex, selectedWeekIndex>>
    /\ storage' = Some(persistText(birthDate', lifeExpectancy', eras', events'))
    /\ UNCHANGED hydrated

updateEra(id, updates) ==
    /\ steps < MaxSteps
    /\ eras' = [i \in 1..Len(eras) |->
                   IF eras[i].id = id THEN merge(eras[i], updates) ELSE eras[i]]
    /\ weekMap' = recomputeWeekMap(birthDate, lifeExpectancy, eras', events)
    /\ call' = Call("updateEra", id, TRUE, "")
    /\ steps' = steps + 1
    /\ UNCHANGED <<birthDate, lifeExpectancy, events, hoveredWeekIndex, selectedWeekIndex>>
    /\ storage' = Some(persistText(birthDate', lifeExpectancy', eras', events'))
    /\ UNCHANGED hydrated

\* removeEra that also empties the event collection
removeEra_withEvents(id) ==
    /\ steps < MaxSteps
    /\ eras' = withoutId(eras, id)
    /\ events' = <<>>
    /\ weekMap' = recomputeWeekMap(birthDate, lifeExpectancy, eras', events')
    /\ call' = Call("removeEra", id, TRUE, "")
    /\ steps' = steps + 1
    /\ UNCHANGED <<birthDate, lifeExpectancy, hoveredWeekIndex, selectedWeekIndex>>
    /\ storage' = Some(persistText(birthDate', lifeExpectancy', eras', events'))
    /\ UNCHANGED hydrated

removeEra(id) ==
    /\ steps < MaxSteps
    /\ eras' = withoutId(eras, id)
    /\ weekMap' = recomputeWeekMap(birthDate, lifeExpectancy, eras', events)
    /\ call' = Call("removeEra", id, TRUE, "")
    /\ steps' = steps + 1
    /\ UNCHANGED <<birthDate, lifeExpectancy, events, hoveredWeekIndex, selectedWeekIndex>>
    /\ storage' = Some(persistText(birthDate', lifeExpectancy', eras', events'))
    /\ UNCHANGED hydrated

addEvent(event) ==
    /\ steps < MaxSteps
    /\ events' = Append(events, event)
    /\ weekMap' = recomputeWeekMap(birthDate, lifeExpectancy, eras, events')
    /\ call' = Call("addEvent", event, TRUE, "")
    /\ steps' = steps + 1
    /\ UNCHANGED <<birthDate, lifeExpectancy, eras, hoveredWeekIndex, selectedWeekIndex>>
    /\ storage' = Some(persistText(birthDate', lifeExpectancy', eras', events'))
    /\ UNCHANGED hydrated

\* updateEvent that moves the updated events to the end of the collection
updateEvent_toEnd(id, updates) ==
    /\ steps < MaxSteps
    /\ LET hit(event)  == event.id = id
           miss(event) == event.id # id
           moved       == SelectSeq(events, hit)
       IN  events' = SelectSeq(events, miss)
                         \o [i \in 1..Len(moved) |-> merge(moved[i], updates)]
    /\ weekMap' = recomputeWeekMap(birthDate, lifeExpectancy, eras, events')
    /\ call' = Call("updateEvent", id, TRUE, "")
    /\ steps' = steps + 1
    /\ UNCHANGED <<birthDate, lifeExpectancy, eras, hoveredWeekIndex, selectedWeekIndex>>
    /\ storage' = Some(persistText(birthDate', lifeExpectancy', eras', events'))
    /\ UNCHANGED hydrated

updateEvent(id, updates) ==
    /\ steps < MaxSteps
    /\ events' = [i \in 1..Len(events) |->
                     IF events[i].id = id THEN merge(events[i], updates) ELSE events[i]]
    /\ weekMap' = recomputeWeekMap(birthDate, lifeExpectancy, eras, events')
    /\ call' = Call("updateEvent", id, TRUE, "")
    /\ steps' = steps + 1
    /\ UNCHANGED <<birthDate, lifeExpectancy, eras, hoveredWeekIndex, selectedWeekIndex>>
    /\ storage' = Some(persistText(birthDate', lifeExpectancy', eras', events'))
    /\ UNCHANGED hydrated

removeEvent(id) ==
    /\ steps < MaxSteps
    /\ events' = withoutId(events, id)
    /\ weekMap' = recomputeWeekMap(birthDate, lifeExpectancy, eras, events')
    /\ call' = Call("removeEvent", id, TRUE, "")
    /\ steps' = steps + 1
    /\ UNCHANGED <<birthDate, lifeExpectancy, eras, hoveredWeekIndex, selectedWeekIndex>>
    /\ storage' = Some(persistText(birthDate', lifeExpectancy', eras', events'))
    /\ UNCHANGED hydrated

setHoveredWeek(index) ==
    /\ steps < MaxSteps
    /\ hoveredWeekIndex' = index
    /\ call' = Call("setHoveredWeek", index, TRUE, "")
    /\ steps' = steps + 1
    /\ UNCHANGED <<data, selectedWeekIndex>>
    /\ storage' = Some(persistText(birthDate', lifeExpectancy', eras', events'))
    /\ UNCHANGED hydrated

setSelectedWeek(index) ==
    /\ steps < MaxSteps
    /\ selectedWeekIndex' = index
    /\ call' = Call("setSelectedWeek", index, TRUE, "")
    /\ steps' = steps + 1
    /\ UNCHANGED <<data, hoveredWeekIndex>>
    /\ storage' = Some(persistText(birthDate', lifeExpectancy', eras', events'))
    /\ UNCHANGED hydrated

\* the persisted part of the state, as exportData reads it
persistedState ==
    [birthDate |-> birthDate, lifeExpectancy |-> lifeExpectancy,
     eras |-> eras, events |-> events]

\* importData that empties the collections before it validates the document
importData_eager(json) ==
    /\ steps < MaxSteps
    /\ LET result == importCalendarData(json)
       IN  IF result.success /\ result.data # None
           THEN /\ birthDate' = Some(result.data[1].birthDate)
                /\ lifeExpectancy' = result.data[1].lifeExpectancy
                /\ eras' = result.data[1].eras
                /\ events' = result.data[1].events
                /\ weekMap' = recomputeWeekMap(birthDate', lifeExpectancy', eras', events')
                /\ call' = Call("importData", json, TRUE, "")
                /\ storage' = Some(persistText(birthDate', lifeExpectancy', eras', events'))
           ELSE /\ eras' = <<>>
                /\ events' = <<>>
                /\ weekMap' = recomputeWeekMap(birthDate, lifeExpectancy, eras', events')
                /\ call' = Call("importData", json, FALSE, result.error)
                /\ storage' = Some(persistText(birthDate, lifeExpectancy, eras', events'))
                /\ UNCHANGED <<birthDate, lifeExpectancy>>
    /\ steps' = steps + 1
    /\ UNCHANGED <<hoveredWeekIndex, selectedWeekIndex, hydrated>>

importData(json) ==
    /\ steps < MaxSteps
    /\ LET result == importCalendarData(json)
       IN  IF result.success /\ result.data # None
           THEN /\ birthDate' = Some(result.data[1].birthDate)
                /\ lifeExpectancy' = result.data[1].lifeExpectancy
                /\ eras' = result.data[1].eras
                /\ events' = result.data[1].events
                /\ weekMap' = recomputeWeekMap(birthDate', lifeExpectancy', eras', events')
                /\ call' = Call("importData", json, TRUE, "")
                /\ storage' = Some(persistText(birthDate', lifeExpectancy', eras', events'))
           ELSE /\ UNCHANGED <<data, storage>>
                /\ call' = Call("importData", json, FALSE, result.error)
    /\ steps' = steps + 1
    /\ UNCHANGED <<hoveredWeekIndex, selectedWeekIndex, hydrated>>

\* clearAllData that keeps the life expectancy
clearAllData_keepLife ==
    /\ steps < MaxSteps
    /\ birthDate' = None
    /\ eras' = <<>>
    /\ events' = <<>>
    /\ weekMap' = emptyMap
    /\ call' = Call("clearAllData", "", TRUE, "")
    /\ steps' = steps + 1
    /\ UNCHANGED <<lifeExpectancy, hoveredWeekIndex, selectedWeekIndex, hydrated>>
    /\ storage' = Some(persistText(birthDate', lifeExpectancy', eras', events'))

clearAllData ==
    /\ steps < MaxSteps
    /\ birthDate' = None
    /\ lifeExpectancy' = DEFAULT_LIFE_EXPECTANCY
    /\ eras' = <<>>
    /\ events' = <<>>
    /\ weekMap' = emptyMap
    /\ call' = Call("clearAllData", "", TRUE, "")
    /\ steps' = steps + 1
    /\ storage' = Some(persistText(birthDate', lifeExpectancy', eras', events'))
    /\ UNCHANGED <<hoveredWeekIndex, selectedWeekIndex, hydrated>>

\* a page load that leaves the index of the hydrated store as it was created
rehydrate_stale ==
    /\ steps < MaxSteps
    /\ LET fields == mergePersisted(getItem(storage))
       IN  /\ hydrated' = Some(hydratedState(fields, emptyMap))
           /\ storage' = Some([state |-> fields, version |-> JNumber(0)])
    /\ call' = Call("rehydrate", "", TRUE, "")
    /\ steps' = steps + 1
    /\ UNCHANGED <<data, hoveredWeekIndex, selectedWeekIndex>>

\* a page load: a new store is created and hydrated from the stored item;
\* onRehydrateStorage rebuilds its index, and that set() writes the item again
rehydrate ==
    /\ steps < MaxSteps
    /\ LET fields == mergePersisted(getItem(storage))
       IN  /\ hydrated' = Some(hydratedState(fields, recomputeHydrated(fields)))
           /\ storage' = Some([state |-> fields, version |-> JNumber(0)])
    /\ call' = Call("rehydrate", "", TRUE, "")
    /\ steps' = steps + 1
    /\ UNCHANGED <<data, hoveredWeekIndex, selectedWeekIndex>>

Next ==
    \/ \E date \in BirthDateInputs : setBirthDate(date)
    \/ \E years \in LifeExpectancyInputs : setLifeExpectancy(years)
    \/ \E era \in EraInputs : addEra(era)
    \/ \E id \in EraIdInputs, updates \in EraUpdateInputs : updateEra(id, updates)
    \/ \E id \in EraIdInputs : removeEra(id)
    \/ \E event \in EventInputs : addEvent(event)
    \/ \E id \in EventIdInputs, updates \in EventUpdateInputs : updateEvent(id, updates)
    \/ \E id \in EventIdInputs : removeEvent(id)
    \/ \E index \in WeekInputs : setHoveredWeek(index)
    \/ \E index \in WeekInputs : setSelectedWeek(index)
    \/ \E json \in JsonInputs : importData(json)
    \/ \E now \in ClockInputs : importData(exportCalendarData(persistedState, now))
    \/ clearAllData
    \/ rehydrate

Spec == Init /\ [][Next]_vars

\* the store driven by file imports, changes of the life expectancy and resets
ImportNext ==
    \/ \E json \in ImportDocuments : importData(json)
    \/ \E years \in LifeExpectancyInputs : setLifeExpectancy(years)
    \/ clearAllData

ImportSpec == Init /\ [][ImportNext]_vars

\* the ids and updates of the era forms: a new colour for an era
EraFormIds == {"u1", "u2"}

EraColorUpdates == {[color |-> "#0f0"], [color |-> "#ff0000"]}

\* the store driven by what changes the cells of the grid
RenderNext ==
    \/ \E date \in BirthDateInputs : setBirthDate(date)
    \/ \E era \in EraInputs : addEra(era)
    \/ \E id \in EraFormIds, updates \in EraColorUpdates : updateEra(id, updates)
    \/ \E id \in EraFormIds : removeEra(id)
    \/ \E event \in EventInputs : addEvent(event)
    \/ \E id \in EventIdInputs : removeEvent(id)
    \/ \E json \in {JsonSnapshot, JsonEdgeCases} : importData(json)

RenderSpec == Init /\ [][RenderNext]_vars

\* starts and ends of periods, in hours after Birth: around the birth date,
\* on and off the midnight at which week 1 begins, and at and after the end
\* of a 50-year life (week 2600)
PeriodStarts == {-10 * 24, -3 * 24, 0, 7 * 24, 7 * 24 + 9, 7 * 24 * 2600}

PeriodEnds == {-2 * 24, 0, 7 * 24, 13 * 24, 7 * 24 * 2700}

\* the periods that do not end before they start
PeriodInputs == {p \in PeriodStarts \X PeriodEnds : p[1] <= p[2]}

\* an era and a period event with the same start and end
PeriodEra(p) ==
    [id |-> "u1", title |-> "Period", startDate |-> Birth + p[1],
     endDate |-> Some(Birth + p[2]), color |-> "#f00", category |-> "other"]

PeriodEvent(p) ==
    [id |-> "v1", date |-> Birth + p[1], endDate |-> Some(Birth + p[2]),
     title |-> "Period", description |-> None, color |-> None]

\* a file with the era and the event of one period
JsonPeriod(p) ==
    exportCalendarData(
        [birthDate |-> Some(Birth), lifeExpectancy |-> 50,
         eras |-> <<PeriodEra(p)>>, events |-> <<PeriodEvent(p)>>],
        DateOf(2000, 2, 1, 9))

\* the store driven by imports of one period as an era and as an event, by
\* changes of the life expectancy and by the removal of the era or the event
PeriodNext ==
    \/ \E p \in PeriodInputs : importData(JsonPeriod(p))
    \/ \E years \in LifeExpectancyInputs : setLifeExpectancy(years)
    \/ removeEra("u1")
    \/ removeEvent("v1")

PeriodSpec == Init /\ [][PeriodNext]_vars

(***************************************************************************)
(* Queries                                                                 *)
(***************************************************************************)
getTotalWeeks == lifeExpectancy * WEEKS_PER_YEAR

\* weekIndexToPosition that counts the weeks of a year from 1
weekIndexToPosition_oneBased(weekIndex) ==
    [year |-> weekIndex \div WEEKS_PER_YEAR, weekOfYear |-> (weekIndex % WEEKS_PER_YEAR) + 1]

\* lib/dateUtils
weekIndexToPosition(weekIndex) ==
    [year |-> weekIndex \div WEEKS_PER_YEAR, weekOfYear |-> weekIndex % WEEKS_PER_YEAR]

positionToWeekIndex(year, weekOfYear) == year * WEEKS_PER_YEAR + weekOfYear

isSameDay(a, b) == startOfDay(a) = startOfDay(b)

isWithinInterval(t, start, end) == t >= start /\ t <= end

\* isWeekPast that counts a week as past from its fifth day on
isWeekPast_early(weekEnd, now) == isBefore(addDays(weekEnd, -3), startOfDay(now))

\* now: the value of new Date() when the query runs
isWeekPast(weekEnd, now) == isBefore(weekEnd, startOfDay(now))

\* isCurrentWeek that leaves out the day on which the week ends
isCurrentWeek_halfOpen(weekStart, weekEnd, now) ==
    LET today == startOfDay(now)
    IN  today >= weekStart /\ today < weekEnd

isCurrentWeek(weekStart, weekEnd, now) ==
    LET today == startOfDay(now)
    IN  \/ isWithinInterval(today, weekStart, weekEnd)
        \/ isSameDay(today, weekStart)
        \/ isSameDay(today, weekEnd)

\* getWeekData that accepts the index one past the last week
getWeekData_inclusive(weekIndex, now) ==
    IF birthDate = None THEN None
    ELSE LET totalWeeks == lifeExpectancy * WEEKS_PER_YEAR
         IN  IF weekIndex < 0 \/ weekIndex > totalWeeks THEN None
             ELSE LET pos   == weekIndexToPosition(weekIndex)
                      range == getWeekRange(birthDate[1], weekIndex)
                  IN  Some([index |-> weekIndex,
                            year |-> pos.year,
                            weekOfYear |-> pos.weekOfYear,
                            startDate |-> range.start,
                            endDate |-> range.end,
                            isPast |-> isWeekPast(range.end, now),
                            isCurrentWeek |-> isCurrentWeek(range.start, range.end, now),
                            activeEras |-> IF weekIndex \in DOMAIN weekMap
                                           THEN weekMap[weekIndex].eraIds ELSE <<>>,
                            events |-> IF weekIndex \in DOMAIN weekMap
                                       THEN weekMap[weekIndex].eventIds ELSE <<>>])

\* the WeekData record, or None for null
getWeekData(weekIndex, now) ==
    IF birthDate = None THEN None
    ELSE LET totalWeeks == lifeExpectancy * WEEKS_PER_YEAR
         IN  IF weekIndex < 0 \/ weekIndex >= totalWeeks THEN None
             ELSE LET pos   == weekIndexToPosition(weekIndex)
                      range == getWeekRange(birthDate[1], weekIndex)
                  IN  Some([index |-> weekIndex,
                            year |-> pos.year,
                            weekOfYear |-> pos.weekOfYear,
                            startDate |-> range.start,
                            endDate |-> range.end,
                            isPast |-> isWeekPast(range.end, now),
                            isCurrentWeek |-> isCurrentWeek(range.start, range.end, now),
                            activeEras |-> IF weekIndex \in DOMAIN weekMap
                                           THEN weekMap[weekIndex].eraIds ELSE <<>>,
                            events |-> IF weekIndex \in DOMAIN weekMap
                                       THEN weekMap[weekIndex].eventIds ELSE <<>>])

(***************************************************************************)
(* The status displays of the components                                   *)
(***************************************************************************)
\* components/WeekCell: the classes of a cell
getCellClassName(weekData) ==
    IF weekData = None THEN <<"week-cell", "future">>
    ELSE <<"week-cell",
           IF weekData[1].isCurrentWeek THEN "current"
           ELSE IF weekData[1].isPast THEN "past"
           ELSE "future">>
         \o (IF Len(weekData[1].events) > 0 THEN <<"has-event">> ELSE <<>>)

\* WeekTooltip: the status line
tooltipStatus(weekData) ==
    IF weekData[1].isPast THEN "Lived"
    ELSE IF weekData[1].isCurrentWeek THEN "Current week"
    ELSE "Future"

\* components/WeekDetailRow
getWeekStatus(weekData) ==
    IF weekData[1].isCurrentWeek THEN "Current week"
    ELSE IF weekData[1].isPast THEN "Lived"
    ELSE "Future"

(***************************************************************************)
(* The cells of the grid: components/LifeGrid and components/WeekCell      *)
(***************************************************************************)
\* LifeGrid: the lookup map of the eras; Map.set keeps the last era of an id
eraMap ==
    [id \in ids(eras) |->
        eras[CHOOSE i \in 1..Len(eras) :
                 /\ eras[i].id = id
                 /\ \A k \in (i + 1)..Len(eras) : eras[k].id # id]]

\* LifeGrid: the props gridContent passes to the cell of a week that
\* WeekCellProps declares
cellProps(weekIndex, now) ==
    [weekIndex |-> weekIndex, weekData |-> getWeekData(weekIndex, now), eras |-> eraMap]

\* weekData?.field: None for undefined
optionalField(weekData, field) ==
    IF weekData = None THEN None ELSE Some(weekData[1][field])

\* weekData?.list.length
optionalLength(weekData, field) ==
    IF weekData = None THEN None ELSE Some(Len(weekData[1][field]))

\* the comparator given to memo: TRUE lets React keep the rendered output
arePropsEqual(prevProps, nextProps) ==
    IF prevProps.weekIndex # nextProps.weekIndex THEN FALSE
    ELSE IF optionalField(prevProps.weekData, "isPast")
                # optionalField(nextProps.weekData, "isPast") THEN FALSE
    ELSE IF optionalField(prevProps.weekData, "isCurrentWeek")
                # optionalField(nextProps.weekData, "isCurrentWeek") THEN FALSE
    ELSE IF optionalLength(prevProps.weekData, "activeEras")
                # optionalLength(nextProps.weekData, "activeEras") THEN FALSE
    ELSE IF optionalLength(prevProps.weekData, "events")
                # optionalLength(nextProps.weekData, "events") THEN FALSE
    ELSE TRUE

\* the background of a cell: none, one colour, or a gradient whose stops are
\* the colours with their share of the diagonal
generateEraGradient(eraColors) ==
    IF Len(eraColors) = 0 THEN [kind |-> "none"]
    ELSE IF Len(eraColors) = 1 THEN [kind |-> "color", color |-> eraColors[1]]
    ELSE [kind |-> "linear-gradient",
          stops |-> [i \in 1..Len(eraColors) |->
                        [color |-> eraColors[i], from |-> i - 1, to |-> i,
                         of |-> Len(eraColors)]]]

\* the element a cell renders
WeekCellComponent(props) ==
    LET known(eraId) == eraId \in DOMAIN props.eras
        activeEras   == IF props.weekData = None THEN <<>>
                        ELSE SelectSeq(props.weekData[1].activeEras, known)
        eraColors    == [i \in 1..Len(activeEras) |-> props.eras[activeEras[i]].color]
    IN  [className      |-> getCellClassName(props.weekData),
         dataWeekIndex  |-> props.weekIndex,
         dataYear       |-> optionalField(props.weekData, "year"),
         dataWeekOfYear |-> optionalField(props.weekData, "weekOfYear"),
         background     |-> generateEraGradient(eraColors),
         ariaCurrent    |-> optionalField(props.weekData, "isCurrentWeek")]

(***************************************************************************)
(* Properties                                                              *)
(***************************************************************************)
\* C1: in every reachable state the stored weekMap is the index built from
\* scratch from the current birthDate, lifeExpectancy, eras and events
\* (the empty map when birthDate is absent).
C1_IndexConsistent ==
    weekMap = recomputeWeekMap(birthDate, lifeExpectancy, eras, events)

\* a life expectancy change has just rebuilt a non-empty index
C1_Witness ==
    /\ call.op = "setLifeExpectancy"
    /\ lifeExpectancy = 121
    /\ birthDate # None
    /\ eras # <<>>
    /\ events # <<>>
    /\ (50 * WEEKS_PER_YEAR) \in DOMAIN weekMap

\* C2: an importData whose input is malformed JSON or fails validation returns
\* a failure result with an error message and leaves birthDate,
\* lifeExpectancy, eras, events and weekMap as they were before the import.
C2_ImportFailureAtomic ==
    [][(/\ call'.op = "importData"
        /\ (~call'.arg.syntaxOk \/ ~ExportDataSchema(call'.arg).ok))
          => (/\ ~call'.success
              /\ call'.error # ""
              /\ UNCHANGED data)]_vars

\* a document with one invalid era has just been rejected by a store that holds
\* a profile, eras, events and a non-empty index
C2_Witness ==
    /\ call.op = "importData"
    /\ call.arg = JsonBadEra
    /\ ~call.success
    /\ call.error = ValidationFailedMessage
    /\ birthDate # None
    /\ eras # <<>>
    /\ events # <<>>
    /\ weekMap # emptyMap

\* C3: exporting any reachable state and importing the resulting JSON succeeds
\* and yields the birthDate, lifeExpectancy, eras and events of the state
\* before the export.
C3_RoundTrip ==
    [][\A now \in ClockInputs :
          (/\ call'.op = "importData"
           /\ call'.arg = exportCalendarData(persistedState, now))
             => (/\ call'.success
                 /\ birthDate' = birthDate
                 /\ lifeExpectancy' = lifeExpectancy
                 /\ eras' = eras
                 /\ events' = events)]_vars

\* C4: birthDate turns from absent to present only by setBirthDate or by a
\* successful importData whose document carries a birth date, and
\* clearAllData always leaves it absent.
C4_BirthDateTransitions ==
    [][/\ (birthDate = None /\ birthDate' # None)
            => \/ call'.op = "setBirthDate"
               \/ /\ call'.op = "importData"
                  /\ call'.success
                  /\ call'.arg.data.birthDate.kind = "iso"
       /\ call'.op = "clearAllData" => birthDate' = None]_vars

\* the week indices the queries are asked for: both ends of the lifespan and
\* their neighbours outside, and a week inside
WeekIndexInputs == {-1, 0, 6, getTotalWeeks - 1, getTotalWeeks}

\* C5: getWeekData(weekIndex) is absent exactly when birthDate is absent or
\* weekIndex < 0 or weekIndex >= lifeExpectancy * 52; otherwise it is a record
\* whose index is weekIndex and whose activeEras and events are the weekMap
\* entry of that index (empty lists when there is no entry).
C5_WeekDataAbsence ==
    \A weekIndex \in WeekIndexInputs, now \in ClockInputs :
        LET weekData == getWeekData(weekIndex, now)
        IN  /\ (weekData = None) <=>
                   \/ birthDate = None
                   \/ weekIndex < 0
                   \/ weekIndex >= lifeExpectancy * WEEKS_PER_YEAR
            /\ weekData # None =>
                   /\ weekData[1].index = weekIndex
                   /\ weekData[1].activeEras = entryOf(weekMap, weekIndex).eraIds
                   /\ weekData[1].events = entryOf(weekMap, weekIndex).eventIds

\* a profile is set; the last week of the lifespan has a record, the index one
\* past it has none, and the records of weeks 0 and 6 carry index entries
C5_Witness ==
    /\ birthDate # None
    /\ \A now \in ClockInputs :
          /\ getWeekData(getTotalWeeks, now) = None
          /\ getWeekData(-1, now) = None
          /\ getWeekData(getTotalWeeks - 1, now) # None
          /\ getWeekData(0, now) # None
          /\ getWeekData(0, now)[1].activeEras # <<>>
          /\ getWeekData(6, now)[1].events # <<>>

\* C6: the stored lifeExpectancy is always in [50, 120], whatever argument
\* setLifeExpectancy was called with, and getTotalWeeks() is in [2600, 6240].
C6_LifeExpectancyInRange ==
    /\ lifeExpectancy \in 50..120
    /\ getTotalWeeks \in 2600..6240

\* C7: updateEra and removeEra with an id that no era has, and updateEvent and
\* removeEvent with an id that no event has, leave birthDate, lifeExpectancy,
\* eras, events and weekMap unchanged and signal no error.
C7_UnknownIdNoOp ==
    [][(\/ call'.op \in {"updateEra", "removeEra"} /\ call'.arg \notin ids(eras)
        \/ call'.op \in {"updateEvent", "removeEvent"} /\ call'.arg \notin ids(events))
          => (/\ UNCHANGED data
              /\ call'.success
              /\ call'.error = "")]_vars

\* updateEra has just run with an id that none of the stored eras has, on a
\* store that holds a profile, eras and a non-empty index
C7_Witness ==
    /\ call.op = "updateEra"
    /\ call.arg = "u3"
    /\ "u3" \notin ids(eras)
    /\ eras # <<>>
    /\ birthDate # None
    /\ weekMap # emptyMap

\* C8: the ids of the stored eras are pairwise distinct, and so are the ids of
\* the stored events.
C8_IdsDistinct ==
    /\ \A i, j \in 1..Len(eras) : eras[i].id = eras[j].id => i = j
    /\ \A i, j \in 1..Len(events) : events[i].id = events[j].id => i = j

\* a list without a repeated element
noDuplicates(seq) == \A i, j \in 1..Len(seq) : seq[i] = seq[j] => i = j

\* C9: no weekMap entry lists the same id twice, neither in eraIds nor in
\* eventIds.
C9_NoDuplicateIds ==
    \A w \in DOMAIN weekMap :
        /\ noDuplicates(weekMap[w].eraIds)
        /\ noDuplicates(weekMap[w].eventIds)

\* the first instant after the lifespan: birthDate + totalWeeks * 7 days
lifespanEnd == addDays(birthDate[1], getTotalWeeks * 7)

\* an era that ends before the birth date or starts at or after the lifespan end
eraOutside(era) ==
    \/ era.endDate # None /\ era.endDate[1] < birthDate[1]
    \/ era.startDate >= lifespanEnd

\* an event, point or period, that ends before the birth date or starts at or
\* after the lifespan end
eventOutside(event) ==
    \/ (IF event.endDate # None THEN event.endDate[1] ELSE event.date) < birthDate[1]
    \/ event.date >= lifespanEnd

\* C10: an era or event that lies entirely outside
\* [birthDate, birthDate + totalWeeks * 7 days) appears in no weekMap entry.
C10_OutsideLifespanAbsent ==
    birthDate # None =>
        \A w \in DOMAIN weekMap :
            /\ \A i \in 1..Len(eras) :
                  (\A j \in 1..Len(eras) :
                      eras[j].id = eras[i].id => eraOutside(eras[j]))
                      => ~includes(weekMap[w].eraIds, eras[i].id)
            /\ \A i \in 1..Len(events) :
                  (\A j \in 1..Len(events) :
                      events[j].id = events[i].id => eventOutside(events[j]))
                      => ~includes(weekMap[w].eventIds, events[i].id)

\* a stored item whose end date is before its start date
endsBeforeStart(start, end) == end # None /\ end[1] < start

\* C11: an era or a period event whose end date precedes its start date, also
\* when both dates are inside the same week, is listed in no weekMap entry.
C11_MalformedPeriodEmpty ==
    birthDate # None =>
        \A w \in DOMAIN weekMap :
            /\ \A i \in 1..Len(eras) :
                  (\A j \in 1..Len(eras) :
                      eras[j].id = eras[i].id
                          => endsBeforeStart(eras[j].startDate, eras[j].endDate))
                      => ~includes(weekMap[w].eraIds, eras[i].id)
            /\ \A i \in 1..Len(events) :
                  (\A j \in 1..Len(events) :
                      events[j].id = events[i].id
                          => endsBeforeStart(events[j].date, events[j].endDate))
                      => ~includes(weekMap[w].eventIds, events[i].id)

\* the weeks the index claims are asked about: the first weeks of the life, the
\* last weeks of a 50-year and of an 80-year life, and the last weeks of this life
WeekSamples ==
    ((0..8) \cup {50 * WEEKS_PER_YEAR - 2, 50 * WEEKS_PER_YEAR - 1,
                  DEFAULT_LIFE_EXPECTANCY * WEEKS_PER_YEAR - 1,
                  getTotalWeeks - 2, getTotalWeeks - 1})
        \cap (0..(getTotalWeeks - 1))

\* weekStart(w) = birthDate + 7w days, weekEnd(w) = weekStart(w) + 7 days
weekStartOf(w) == addDays(birthDate[1], 7 * w)

weekEndOf(w) == addDays(weekStartOf(w), 7)

\* NOT(eraStart > weekEnd(w)) and NOT(eraEnd present and eraEnd < weekStart(w))
eraActiveIn(era, w) ==
    /\ ~(era.startDate > weekEndOf(w))
    /\ ~(era.endDate # None /\ era.endDate[1] < weekStartOf(w))

\* the ids of the eras of a list, in list order
idsInOrder(list) == [k \in 1..Len(list) |-> list[k].id]

\* C12: for every week w of the lifespan, getWeekData(w).activeEras lists, in
\* the order of the collection, the ids of exactly the eras for which
\* NOT(eraStart > weekEnd(w)) and NOT(eraEnd present and eraEnd < weekStart(w)).
C12_EraActivity ==
    birthDate # None =>
        \A w \in WeekSamples, now \in ClockInputs :
            LET activeInW(era) == eraActiveIn(era, w)
            IN  getWeekData(w, now)[1].activeEras = idsInOrder(SelectSeq(eras, activeInW))

\* an era from the birth date to 13 days later is stored; it is active in weeks
\* 0 and 1 and not in week 2, and an era that starts where week 0 ends is
\* active in week 0
C12_Witness ==
    /\ birthDate # None
    /\ \E i \in 1..Len(eras) :
          /\ eras[i].startDate = birthDate[1]
          /\ eras[i].endDate = Some(addDays(birthDate[1], 13))
          /\ \A now \in ClockInputs :
                /\ includes(getWeekData(0, now)[1].activeEras, eras[i].id)
                /\ includes(getWeekData(1, now)[1].activeEras, eras[i].id)
                /\ ~includes(getWeekData(2, now)[1].activeEras, eras[i].id)
    /\ \E i \in 1..Len(eras) :
          /\ eras[i].startDate = weekEndOf(0)
          /\ includes(weekMap[0].eraIds, eras[i].id)

\* number of complete 7-day periods between the zeroed birth date and the
\* zeroed date, negative when the date is before the birth date
weekIndexOf(date) ==
    LET days == (startOfDay(date) - startOfDay(birthDate[1])) \div 24
    IN  IF days >= 0 THEN days \div 7 ELSE -((-days) \div 7)

\* the weeks of the lifespan a stored event belongs to: max(0,a)..min(totalWeeks-1,b)
\* for a period event, the week of its date, if in range, for a point event
weeksOf(event) ==
    IF event.endDate # None
    THEN max(0, weekIndexOf(event.date))
             .. min(getTotalWeeks - 1, weekIndexOf(event.endDate[1]))
    ELSE {weekIndexOf(event.date)} \cap (0..(getTotalWeeks - 1))

\* C13: a period event is listed in eventIds of exactly the weeks from the
\* week of its date to the week of its endDate, clipped to
\* max(0,a)..min(totalWeeks-1,b), and of no other week.
C13_PeriodEventWeeks ==
    birthDate # None =>
        \A i \in 1..Len(events), w \in WeekSamples :
            events[i].endDate # None =>
                (includes(entryOf(weekMap, w).eventIds, events[i].id)
                    <=> \E j \in 1..Len(events) :
                           events[j].id = events[i].id /\ w \in weeksOf(events[j]))

\* a period event from the start of week 5 to the start of week 7 is stored and
\* is listed in weeks 5, 6 and 7 and not in weeks 4 and 8
C13_Witness ==
    /\ birthDate # None
    /\ \E i \in 1..Len(events) :
          /\ events[i].date = weekStartOf(5)
          /\ events[i].endDate = Some(weekStartOf(7))
          /\ \A w \in 5..7 : includes(entryOf(weekMap, w).eventIds, events[i].id)
          /\ \A w \in {4, 8} : ~includes(entryOf(weekMap, w).eventIds, events[i].id)

ClockSamples ==
    {addDays(birthDate[1], d) + h : d \in {-1, 0, 1, 6, 7, 8, 10, 14}, h \in {0, 9}}
        \cup {addDays(birthDate[1], d) :
                 d \in {7 * (getTotalWeeks - 1), 7 * getTotalWeeks - 1, 7 * getTotalWeeks}}

\* the status a cell class stands for, in the words of the other two displays
statusOfClass(class) ==
    CASE class = "current" -> "Current week"
      [] class = "past"    -> "Lived"
      [] class = "future"  -> "Future"

\* C15: for every week of the lifespan and every value of the clock, isPast
\* and isCurrentWeek are both true at most on a day that is one of the week's
\* boundary days, so on every other day the week is exactly one of past,
\* current and future and the three status displays agree.
C15_StatusPartition ==
    birthDate # None =>
        \A w \in WeekSamples, now \in ClockSamples :
            LET weekData == getWeekData(w, now)
                today    == startOfDay(now)
                boundary == today = weekData[1].startDate \/ today = weekData[1].endDate
            IN  /\ (weekData[1].isPast /\ weekData[1].isCurrentWeek) => boundary
                /\ ~boundary =>
                      /\ statusOfClass(getCellClassName(weekData)[2]) = tooltipStatus(weekData)
                      /\ getWeekStatus(weekData) = tooltipStatus(weekData)

\* on the fourth day of week 1, week 0 is shown as lived, week 1 as the current
\* week and week 2 as future by all three displays
C15_Witness ==
    /\ birthDate # None
    /\ LET now == addDays(birthDate[1], 10) + 9
       IN  /\ now \in ClockSamples
           /\ getCellClassName(getWeekData(0, now))[2] = "past"
           /\ tooltipStatus(getWeekData(0, now)) = "Lived"
           /\ getCellClassName(getWeekData(1, now))[2] = "current"
           /\ getWeekStatus(getWeekData(1, now)) = "Current week"
           /\ tooltipStatus(getWeekData(1, now)) = "Current week"
           /\ getCellClassName(getWeekData(2, now))[2] = "future"
           /\ tooltipStatus(getWeekData(2, now)) = "Future"

\* the in-range weeks around the week of the clock's day
weeksAround(now) ==
    ((weekIndexOf(now) - 3)..(weekIndexOf(now) + 3)) \cap (0..(getTotalWeeks - 1))

\* the weeks, among the sampled ones and those around today, that are current
currentWeeks(now) ==
    {w \in WeekSamples \cup weeksAround(now) : getWeekData(w, now)[1].isCurrentWeek}

\* C16: isCurrentWeek is true iff the zeroed today lies in [weekStart, weekEnd];
\* for a today inside the lifespan one or two weeks are current, and two
\* (w-1 and w) exactly when today is the start day of a week w >= 1.
C16_CurrentWeek ==
    birthDate # None =>
        \A now \in ClockSamples :
            LET today == startOfDay(now)
            IN  /\ \A w \in WeekSamples \cup weeksAround(now) :
                      getWeekData(w, now)[1].isCurrentWeek
                          <=> (weekStartOf(w) <= today /\ today <= weekEndOf(w))
                /\ (today >= birthDate[1] /\ today < lifespanEnd) =>
                      /\ Cardinality(currentWeeks(now)) \in {1, 2}
                      /\ Cardinality(currentWeeks(now)) = 2
                            <=> \E w \in 1..(getTotalWeeks - 1) \cap weeksAround(now) :
                                   /\ today = weekStartOf(w)
                                   /\ currentWeeks(now) = {w - 1, w}

\* on the day week 1 starts weeks 0 and 1 are current, three days later only week 1
C16_Witness ==
    /\ birthDate # None
    /\ addDays(birthDate[1], 7) + 9 \in ClockSamples
    /\ currentWeeks(addDays(birthDate[1], 7) + 9) = {0, 1}
    /\ currentWeeks(addDays(birthDate[1], 10)) = {1}

\* C17: getWeekIndex and getWeekRange are consistent: every day of week w has
\* index w, week w starts at birthDate + 7w days and ends where week w+1
\* starts; with birthDate 2000-01-01 the index of 2000-01-10 is 1 and week 0 is
\* 2000-01-01 .. 2000-01-08.
C17_WeekIndexRange ==
    /\ getWeekIndex(DateOf(2000, 1, 1, 0), DateOf(2000, 1, 10, 0)) = 1
    /\ getWeekRange(DateOf(2000, 1, 1, 0), 0)
           = [start |-> DateOf(2000, 1, 1, 0), end |-> DateOf(2000, 1, 8, 0)]
    /\ birthDate # None =>
          \A w \in WeekSamples \cup {getTotalWeeks, getTotalWeeks + 1} :
              /\ getWeekRange(birthDate[1], w).start = addDays(birthDate[1], 7 * w)
              /\ getWeekRange(birthDate[1], w).end = getWeekRange(birthDate[1], w + 1).start
              /\ \A k \in 0..6, h \in {0, 9, 23} :
                    getWeekIndex(birthDate[1],
                                 addDays(getWeekRange(birthDate[1], w).start, k) + h) = w

\* a birth date of 2000-01-01 is stored and the last week of the life has a range
C17_Witness ==
    /\ birthDate = Some(DateOf(2000, 1, 1, 0))
    /\ getWeekIndex(birthDate[1], DateOf(2000, 1, 10, 0)) = 1
    /\ getWeekRange(birthDate[1], 0).end = DateOf(2000, 1, 8, 0)
    /\ getWeekIndex(birthDate[1], addDays(getWeekRange(birthDate[1], getTotalWeeks - 1).start, 6))
           = getTotalWeeks - 1

\* the week indices the position claims are asked about: the sampled weeks and
\* the weeks around the first two year ends
PositionSamples ==
    (WeekSamples \cup {50, 51, 52, 53, 103, 104, 105}) \cap (0..(getTotalWeeks - 1))

\* C18: for every week index w in [0,totalWeeks), weekIndexToPosition(w) has
\* year = floor(w/52) in [0, lifeExpectancy-1] and weekOfYear = w mod 52 in
\* [0,51], and positionToWeekIndex(year, weekOfYear) = w; with lifeExpectancy
\* 80 the position of week 4159 is year 79, week 51.
C18_PositionInverse ==
    /\ \A w \in PositionSamples :
          LET pos == weekIndexToPosition(w)
          IN  /\ pos.year \in 0..(lifeExpectancy - 1)
              /\ pos.weekOfYear \in 0..51
              /\ 52 * pos.year <= w /\ w < 52 * (pos.year + 1)
              /\ w - pos.weekOfYear = 52 * pos.year
              /\ positionToWeekIndex(pos.year, pos.weekOfYear) = w
    /\ lifeExpectancy = 80 =>
          /\ getTotalWeeks = 4160
          /\ weekIndexToPosition(4159) = [year |-> 79, weekOfYear |-> 51]

\* with a life expectancy of 80 the record of week 4159 is in year 79, week 51
C18_Witness ==
    /\ birthDate # None
    /\ lifeExpectancy = 80
    /\ \A now \in ClockInputs :
          /\ getWeekData(4159, now)[1].year = 79
          /\ getWeekData(4159, now)[1].weekOfYear = 51
    /\ positionToWeekIndex(79, 51) = 4159

\* C19: the stored item holds only birthDate, lifeExpectancy, eras and events,
\* and the weekMap of a store right after hydration is the index built from
\* its birthDate, lifeExpectancy, eras and events.
C19_PersistedFieldsAndRebuild ==
    /\ storage # None =>
          /\ DOMAIN storage[1] = {"state", "version"}
          /\ DOMAIN storage[1].state = {"birthDate", "lifeExpectancy", "eras", "events"}
    /\ hydrated # None =>
          /\ hydrated[1].weekMap = recomputeHydrated(hydrated[1])
          /\ hydrated[1].hoveredWeekIndex = None
          /\ hydrated[1].selectedWeekIndex = None

\* a page has just been loaded from an item that holds a birth date, eras and
\* events, and the hydrated store has the index of the store that saved it
C19_Witness ==
    /\ call.op = "rehydrate"
    /\ hydrated # None
    /\ hydrated[1].birthDate.kind # "null"
    /\ Len(hydrated[1].eras.items) > 0
    /\ Len(hydrated[1].events.items) > 0
    /\ hydrated[1].weekMap # emptyMap
    /\ hydrated[1].weekMap = weekMap

\* the JavaScript value of an optional Date field
dateValue(opt) == IF opt = None THEN JUndefined ELSE JDate(opt[1])

\* C20: every date-typed field of the state hydrated from the stored item is a
\* Date equal to the one that was saved: birthDate, the startDate and endDate
\* of every era, the date and endDate of every event.
C20_HydratedDates ==
    (call.op = "rehydrate" /\ hydrated # None /\ birthDate # None) =>
        /\ hydrated[1].birthDate = JDate(birthDate[1])
        /\ Len(hydrated[1].eras.items) = Len(eras)
        /\ \A i \in 1..Len(eras) :
              /\ hydrated[1].eras.items[i].startDate = JDate(eras[i].startDate)
              /\ hydrated[1].eras.items[i].endDate = dateValue(eras[i].endDate)
        /\ Len(hydrated[1].events.items) = Len(events)
        /\ \A i \in 1..Len(events) :
              /\ hydrated[1].events.items[i].date = JDate(events[i].date)
              /\ hydrated[1].events.items[i].endDate = dateValue(events[i].endDate)

(***************************************************************************)
(* Validation of imported documents                                        *)
(***************************************************************************)
\* the strings that String.prototype.trim turns into the empty string; no
\* other title of the documents begins or ends with whitespace
BlankStrings == {"", " ", "  "}

trim(text) == IF text \in BlankStrings THEN "" ELSE text

\* the title properties of the eras and events of a document
titlesOf(json) ==
    {json.data.eras.items[i].title : i \in 1..Len(json.data.eras.items)}
        \cup {json.data.events.items[i].title : i \in 1..Len(json.data.events.items)}

hasBlankTitle(json) ==
    /\ json.syntaxOk
    /\ \E t \in titlesOf(json) : t.kind = "string" /\ trim(t.text) = ""

\* C21: importData fails for every document in which the title of some era
\* or event is empty after trimming whitespace, a title made of spaces
\* included.
C21_BlankTitleRejected ==
    (call.op = "importData" /\ hasBlankTitle(call.arg)) => ~call.success

\* a date-typed property that holds the ISO-8601 string of a valid date
isDateText(j) == j.kind = "iso"

\* a document that meets the four conditions: version 1, an integer life
\* expectancy in [50,120], known era categories, valid dates in all date fields
wellFormedDocument(json) ==
    /\ json.syntaxOk
    /\ json.version = JNumber(1)
    /\ isDateText(json.exportedAt)
    /\ isDateText(json.data.birthDate)
    /\ json.data.lifeExpectancy.kind = "number"
    /\ json.data.lifeExpectancy.value \in 50..120
    /\ \A i \in 1..Len(json.data.eras.items) :
          LET era == json.data.eras.items[i]
          IN  /\ era.category \in {JString(c) : c \in {"work", "education", "location",
                                                       "relationship", "health", "other"}}
              /\ isDateText(era.startDate)
              /\ era.endDate = JUndefined \/ isDateText(era.endDate)
    /\ \A i \in 1..Len(json.data.events.items) :
          LET event == json.data.events.items[i]
          IN  /\ isDateText(event.date)
              /\ event.endDate = JUndefined \/ isDateText(event.endDate)

\* C22: importData succeeds only for documents with version 1, an integer
\* lifeExpectancy in [50,120], era categories of the six known ones and date
\* fields that all parse; a document that breaks one of these, or omits
\* lifeExpectancy or the birth date, is rejected.
C22_OnlyWellFormedAccepted ==
    (call.op = "importData" /\ call.success) => wellFormedDocument(call.arg)

(***************************************************************************)
(* Ongoing eras                                                            *)
(***************************************************************************)
\* the era is the only one of the collection with its id and has no end date
ongoingEra(i) ==
    /\ eras[i].endDate = None
    /\ \A k \in 1..Len(eras) : eras[k].id = eras[i].id => k = i

\* C23: an era without endDate ends today when a week is queried: it is
\* listed in activeEras of the weeks from the week of its start to the week
\* that contains today, and in no week that begins after today.
C23_OngoingEraEndsToday ==
    birthDate # None =>
        \A now \in ClockInputs : \A w \in WeekSamples : \A i \in 1..Len(eras) :
            ongoingEra(i) =>
                LET listed == includes(getWeekData(w, now)[1].activeEras, eras[i].id)
                IN  /\ (/\ w >= getWeekIndex(birthDate[1], eras[i].startDate)
                        /\ w <= getWeekIndex(birthDate[1], now)) => listed
                    /\ isAfter(weekStartOf(w), startOfDay(now)) => ~listed

(***************************************************************************)
(* Reset                                                                   *)
(***************************************************************************)
\* C24: whatever the state before, the state clearAllData leaves has no
\* birth date, the default life expectancy of 80 years, no eras, no events
\* and an empty weekMap, and getWeekData is absent for every index.
C24_ClearResets ==
    call.op = "clearAllData" =>
        /\ birthDate = None
        /\ lifeExpectancy = 80
        /\ eras = <<>>
        /\ events = <<>>
        /\ weekMap = emptyMap
        /\ \A weekIndex \in WeekIndexInputs \cup {0, 1, 4159}, now \in ClockInputs :
              getWeekData(weekIndex, now) = None

\* clearAllData ran as the second command, after a command on the data (the
\* two selections, which it does not touch, were never set and no page load
\* took place)
C24_Witness ==
    /\ call.op = "clearAllData"
    /\ steps = 2
    /\ birthDate = None /\ eras = <<>> /\ events = <<>> /\ weekMap = emptyMap
    /\ hoveredWeekIndex = None /\ selectedWeekIndex = None /\ hydrated = None

(***************************************************************************)
(* Order of the ids of an entry                                            *)
(***************************************************************************)
\* sub[i..] can be read off seq[j..] from left to right, skipping elements
RECURSIVE readsOff(_, _, _, _)
readsOff(sub, i, seq, j) ==
    IF i > Len(sub) THEN TRUE
    ELSE IF j > Len(seq) THEN FALSE
    ELSE IF sub[i] = seq[j] THEN readsOff(sub, i + 1, seq, j + 1)
    ELSE readsOff(sub, i, seq, j + 1)

\* the ids of sub appear in the relative order of the items of list
inOrderOf(sub, list) == readsOff(sub, 1, idsInOrder(list), 1)

\* every entry of the map lists its ids in the order of the two collections
entriesInOrder(map, eraList, eventList) ==
    \A entry \in {map[w] : w \in DOMAIN map} :
        /\ inOrderOf(entry.eraIds, eraList)
        /\ inOrderOf(entry.eventIds, eventList)

\* an update leaves the collection as long as it was and every item with
\* another id where it was
keepsPositions(old, new, id) ==
    /\ Len(new) = Len(old)
    /\ \A i \in 1..Len(old) :
          IF old[i].id # id THEN new[i] = old[i]
          ELSE \A f \in DOMAIN old[i] \ {"id", "title"} : new[i][f] = old[i][f]

\* C25: in every reachable state the eraIds of every weekMap entry are in
\* the relative order of the era collection and the eventIds in that of the
\* event collection; updateEra and updateEvent keep the updated item at its
\* position, so that they reorder no entry.
C25_EntryOrder ==
    [][/\ entriesInOrder(weekMap', eras', events')
       /\ call'.op = "updateEra" => keepsPositions(eras, eras', call'.arg)
       /\ call'.op = "updateEvent" => keepsPositions(events, events', call'.arg)]_vars

\* updateEvent has just updated the second of six events, and an entry of
\* the index lists two events
C25_Witness ==
    /\ call.op = "updateEvent"
    /\ Len(events) = 6
    /\ events[2].title = "Renamed"
    /\ events[3].title = "Early"
    /\ \E w \in DOMAIN weekMap : Len(weekMap[w].eventIds) >= 2

(***************************************************************************)
(* Sparseness of the index                                                 *)
(***************************************************************************)
\* C26: in every reachable state every key of weekMap is a week of the
\* lifespan, 0 <= key < lifeExpectancy * 52, and every entry holds at least
\* one era id or event id; after setLifeExpectancy has lowered the life
\* expectancy no entry is left for a week beyond the new total.
C26_SparseInRange ==
    /\ \A w \in DOMAIN weekMap : w >= 0 /\ w < lifeExpectancy * 52
    /\ \A entry \in {weekMap[w] : w \in DOMAIN weekMap} :
          Len(entry.eraIds) + Len(entry.eventIds) >= 1

\* setLifeExpectancy has lowered the life expectancy from 80 to 50 years of
\* an imported calendar whose ongoing era reached week 4159: the last week
\* of the new lifespan has an entry, and week 10 has none
C26_Witness ==
    /\ call.op = "setLifeExpectancy"
    /\ lifeExpectancy = 50
    /\ storage # None
    /\ birthDate # None
    /\ Len(eras) = 2 /\ eras[2].endDate = None
    /\ (50 * 52 - 1) \in DOMAIN weekMap
    /\ 0 \in DOMAIN weekMap
    /\ Len(weekMap[0].eventIds) >= 1

(***************************************************************************)
(* Frame of the commands                                                   *)
(***************************************************************************)
\* C27: the era commands leave birthDate, lifeExpectancy and events as they
\* are, the event commands birthDate, lifeExpectancy and eras, setBirthDate
\* and setLifeExpectancy eras and events, and setHoveredWeek and
\* setSelectedWeek birthDate, lifeExpectancy, eras, events and weekMap.
C27_CommandFrames ==
    [][/\ call'.op \in {"addEra", "updateEra", "removeEra"} =>
              UNCHANGED <<birthDate, lifeExpectancy, events>>
       /\ call'.op \in {"addEvent", "updateEvent", "removeEvent"} =>
              UNCHANGED <<birthDate, lifeExpectancy, eras>>
       /\ call'.op \in {"setBirthDate", "setLifeExpectancy"} =>
              UNCHANGED <<eras, events>>
       /\ call'.op \in {"setHoveredWeek", "setSelectedWeek"} =>
              UNCHANGED <<birthDate, lifeExpectancy, eras, events, weekMap>>]_vars

\* removeEra has removed the second era of an imported calendar, whose birth
\* date, life expectancy of 50 years and two events are still there
C27_Witness ==
    /\ call.op = "removeEra"
    /\ call.arg = "u2"
    /\ Len(eras) = 1
    /\ Len(events) = 2
    /\ birthDate # None
    /\ lifeExpectancy = 50

(***************************************************************************)
(* Rendering of the cells                                                  *)
(***************************************************************************)
RenderWeeks == {0, 1, 2, 5, 8}

\* C28: a cell is rendered again whenever its weekData changes: when a store
\* command leaves the props of a rendered cell such that the memo comparator
\* keeps the old output, the old output is what the new props would render
\* (era colours, classes and event marker).
C28_MemoFaithful ==
    [][(birthDate # None /\ birthDate' # None) =>
          \A w \in RenderWeeks, now \in ClockInputs :
              LET prevProps == cellProps(w, now)
                  nextProps == cellProps(w, now)'
              IN  arePropsEqual(prevProps, nextProps) =>
                      WeekCellComponent(nextProps) = WeekCellComponent(prevProps)]_vars

(***************************************************************************)
(* Eras and period events of the same dates                                *)
(***************************************************************************)
\* the weeks whose entry lists the era id / the event id
eraWeeksOf(id) == {w \in DOMAIN weekMap : includes(weekMap[w].eraIds, id)}

eventWeeksOf(id) == {w \in DOMAIN weekMap : includes(weekMap[w].eventIds, id)}

\* era i and event j are the only items of their ids and have the same
\* start and the same end, the end not before the start
samePeriod(i, j) ==
    /\ eras[i].endDate # None
    /\ events[j].endDate = eras[i].endDate
    /\ events[j].date = eras[i].startDate
    /\ eras[i].startDate <= eras[i].endDate[1]
    /\ \A k \in 1..Len(eras) : eras[k].id = eras[i].id => k = i
    /\ \A k \in 1..Len(events) : events[k].id = events[j].id => k = j

\* C29: for the same start and end dates, start <= end, the weeks that list
\* a period event are among the weeks that list an era, and a week that
\* lists the era but not the event is the week that ends on the start date.
C29_EventWeeksWithinEraWeeks ==
    birthDate # None =>
        \A i \in 1..Len(eras), j \in 1..Len(events) :
            samePeriod(i, j) =>
                /\ eventWeeksOf(events[j].id) \subseteq eraWeeksOf(eras[i].id)
                /\ \A w \in eraWeeksOf(eras[i].id) \ eventWeeksOf(events[j].id) :
                      isSameDay(weekEndOf(w), eras[i].startDate)

(***************************************************************************)
(* Eras and events added before the birth date                             *)
(***************************************************************************)
\* C30: while birthDate is absent addEra and addEvent append to their
\* collection and the weekMap stays empty; setBirthDate keeps the collections
\* and indexes them as addEra and addEvent index them once the birth date is
\* set, so an add followed by setBirthDate and setBirthDate followed by the
\* add end in the same state.
C30_AddBeforeBirthDate ==
    [][/\ call'.op = "addEra" =>
              /\ eras' = Append(eras, call'.arg)
              /\ weekMap' = recomputeWeekMap(birthDate, lifeExpectancy,
                                             Append(eras, call'.arg), events)
              /\ birthDate = None => weekMap' = emptyMap
       /\ call'.op = "addEvent" =>
              /\ events' = Append(events, call'.arg)
              /\ weekMap' = recomputeWeekMap(birthDate, lifeExpectancy,
                                             eras, Append(events, call'.arg))
              /\ birthDate = None => weekMap' = emptyMap
       /\ call'.op = "setBirthDate" =>
              /\ birthDate' = Some(call'.arg)
              /\ eras' = eras /\ events' = events
              /\ weekMap' = recomputeWeekMap(Some(call'.arg), lifeExpectancy,
                                             eras, events)]_vars

\* setBirthDate has run as the second command, after the addEra that put the
\* only era into the collection, and that era is now in the index
C30_Witness ==
    /\ call.op = "setBirthDate"
    /\ steps = 2
    /\ Len(eras) = 1
    /\ events = <<>>
    /\ \E w \in DOMAIN weekMap : includes(weekMap[w].eraIds, eras[1].id)

====
